---- MODULE Spec2Model ----
(***************************************************************************)
(* Two-way synchronisation of the local task store with Microsoft To Do    *)
(* (src/src/main/microsoftSync.ts).  One pass of syncWithMicrosoft is      *)
(* modelled as a sequence of steps, one per awaited call or loop           *)
(* iteration; the remote service, the local task database and the          *)
(* electron-store file are the environment.                                *)
(***************************************************************************)
EXTENDS Integers, Sequences, FiniteSets, TLC

\* ---------------------------------------------------------------- bounds
MaxLocal == 3        \* local tasks the database may hold
MaxRemote == 3       \* remote task ids the service may hand out
MaxLists == 2        \* remote lists the service may hold
MaxPasses == 2       \* passes of syncWithMicrosoft per behaviour
MaxChanges == 1      \* user changes (add, edit, delete, clear, sign in/out)
MaxFailures == 2     \* calls that fail although they could have succeeded
MaxMounts == 2       \* times the sync dialog is opened

\* ------------------------------------------------------------- constants
FirstMsId == 11      \* remote task ids are 11, 12, ... (opaque in the code)
FirstListId == 21    \* remote list ids are 21, 22, ...
NoTime == 0          \* lastSyncTime: null

VARIABLES
  signedIn,          \* isMicrosoftSignedIn()
  taskDb,            \* local task database behind taskService, creation order
  msLists,           \* remote: the To Do lists of the account
  msDb,              \* remote: the To Do tasks of all lists
  nextMsId,          \* remote: next task id the service assigns
  syncStore,         \* electron-store 'microsoft-sync'
  pc,                \* position of syncWithMicrosoft
  msListId,          \* syncWithMicrosoft: const msListId
  msTasks,           \* syncWithMicrosoft: const msTasks
  localTasks,        \* syncWithMicrosoft: const localTasks
  taskMappings,      \* syncWithMicrosoft: const taskMappings (in memory)
  reverseMappings,   \* syncWithMicrosoft: const reverseMappings
  idx,               \* loop position in msTasks / localTasks
  result,            \* syncWithMicrosoft: const result
  passes,            \* passes begun; also the clock of new Date()
  changes,           \* user changes made
  failures,          \* failing calls so far
  trace,             \* calls issued by the current (or last) pass
  pre,               \* state at the beginning of the current (or last) pass
  prev,              \* how the current (or last) pass follows the one before
  ui                 \* the sync dialog (MicrosoftSync.tsx) and its sync calls

vars == <<signedIn, taskDb, msLists, msDb, nextMsId, syncStore, pc, msListId,
          msTasks, localTasks, taskMappings, reverseMappings, idx, result,
          passes, changes, failures, trace, pre, prev, ui>>

remoteVars == <<msLists, msDb, nextMsId>>
passVars == <<msListId, msTasks, localTasks, taskMappings, reverseMappings, idx>>

\* ---------------------------------------------------------------- helpers
Range(f) == {f[x] : x \in DOMAIN f}

Injective(f) == \A a, b \in DOMAIN f : f[a] = f[b] => a = b

\* obj[key] = value on a Record<string, string>
Put(f, k, v) == [x \in (DOMAIN f) \cup {k} |-> IF x = k THEN v ELSE f[x]]

EmptyMap == [x \in {} |-> 0]

\* indices of the entries of a sequence
Indices(s) == 1 .. Len(s)

\* the outcomes a call may have: those of `good` always, the others while a
\* failure may still happen
Outcomes(all, good) == {o \in all : o \in good \/ failures < MaxFailures}

Call(op, list, item, ok) == [op |-> op, list |-> list, item |-> item, ok |-> ok]

Err(msg, title) == [msg |-> msg, title |-> title]

\* ------------------------------------------------------ field translation
Priority == {"none", "low", "medium", "high"}
Importance == {"low", "normal", "high"}
NoDue == <<>>        \* dueDateTime absent
NoBody == ""         \* body absent (or empty content)

toMicrosoftImportance(priority) ==
  CASE priority = "high" -> "high"
    [] priority = "medium" -> "normal"
    [] priority = "low" -> "low"
    [] OTHER -> "normal"

\* the inbound table with normal taken for no priority
fromMicrosoftImportanceNormalNone(importance) ==
  CASE importance = "high" -> "high"
    [] importance = "low" -> "low"
    [] OTHER -> "none"

fromMicrosoftImportance(importance) ==
  CASE importance = "high" -> "high"
    [] importance = "normal" -> "medium"
    [] importance = "low" -> "low"
    [] OTHER -> "none"

\* `${dueDate}T${dueTime}:00` / `${dueDate}T00:00:00` as <<date, time, seconds>>
DueDateTime(task) ==
  IF task.dueTime # "" THEN <<task.dueDate, task.dueTime, "00">>
  ELSE <<task.dueDate, "00:00", "00">>

\* the MicrosoftTodoTask built from a local task; hasBody / hasDue tell which
\* optional members the object carries
toMicrosoftTask(task) ==
  [title |-> task.title,
   importance |-> toMicrosoftImportance(task.priority),
   status |-> IF task.completed THEN "completed" ELSE "notStarted",
   hasBody |-> (task.description # "" \/ task.notes # ""),
   body |-> IF task.description # "" THEN task.description ELSE task.notes,
   hasDue |-> task.dueDate # "",
   dueDateTime |-> IF task.dueDate # "" THEN DueDateTime(task) ELSE NoDue]

\* msTask.dueDateTime?.dateTime?.split('T')[0] || null
DatePart(due) == IF due = NoDue THEN "" ELSE due[1]

\* --------------------------------------------------------- remote service
\* POST /me/todo/lists/{listId}/tasks: the service stores the members sent
Posted(id, listId, msTask) ==
  [id |-> id, listId |-> listId, title |-> msTask.title,
   body |-> IF msTask.hasBody THEN msTask.body ELSE NoBody,
   importance |-> msTask.importance, status |-> msTask.status,
   dueDateTime |-> IF msTask.hasDue THEN msTask.dueDateTime ELSE NoDue]

\* PATCH /me/todo/lists/{listId}/tasks/{id}: members that are not sent keep
\* their value
Patched(old, msTask) ==
  [old EXCEPT !.title = msTask.title,
              !.importance = msTask.importance,
              !.status = msTask.status,
              !.body = IF msTask.hasBody THEN msTask.body ELSE @,
              !.dueDateTime = IF msTask.hasDue THEN msTask.dueDateTime ELSE @]

\* GET /me/todo/lists/{listId}/tasks
TasksOfList(listId) == SelectSeq(msDb, LAMBDA t : t.listId = listId)

MsIds(tasks) == {tasks[i].id : i \in Indices(tasks)}

\* ------------------------------------------------------------ local store
\* taskService.create({title, description, priority, dueDate})
Created(id, fields) ==
  [id |-> id, title |-> fields.title, description |-> fields.description,
   notes |-> "", priority |-> fields.priority, completed |-> FALSE,
   dueDate |-> fields.dueDate, dueTime |-> ""]

\* the fields the import loop hands to taskService.create
ImportFields(msTask) ==
  [title |-> msTask.title,
   description |-> msTask.body,
   priority |-> fromMicrosoftImportance(msTask.importance),
   dueDate |-> DatePart(msTask.dueDateTime)]

\* ------------------------------------------------------------- sync store
Defaults == [lastSyncTime |-> NoTime, taskMappings |-> EmptyMap,
             listMappings |-> EmptyMap]

getSyncStatus ==
  [lastSyncTime |-> syncStore.lastSyncTime,
   taskCount |-> Cardinality(DOMAIN syncStore.taskMappings),
   listCount |-> Cardinality(DOMAIN syncStore.listMappings)]

\* ------------------------------------------------------------ environment
LocalProfiles ==
  { [title |-> "A", description |-> "d", notes |-> "", priority |-> "high",
     completed |-> FALSE, dueDate |-> "D1", dueTime |-> "T1"],
    [title |-> "B", description |-> "", notes |-> "", priority |-> "none",
     completed |-> TRUE, dueDate |-> "", dueTime |-> ""] }

RemoteProfiles ==
  { [title |-> "X", body |-> "b", importance |-> "normal",
     status |-> "completed", dueDateTime |-> <<"D2", "09:00", "00">>],
    [title |-> "Y", body |-> NoBody, importance |-> "low",
     status |-> "notStarted", dueDateTime |-> NoDue] }

LocalTask(id, p) == [id |-> id] @@ p

RemoteTask(id, listId, p) == [id |-> id, listId |-> listId] @@ p

Idle == pc \in {"idle", "done"}

Changed == /\ changes' = changes + 1
           /\ prev' = [prev EXCEPT !.dirty = TRUE]

\* the user signs in or out (microsoftAuth)
SignInOut ==
  /\ Idle /\ changes < MaxChanges
  /\ signedIn' = ~signedIn
  /\ Changed
  /\ UNCHANGED <<taskDb, remoteVars, syncStore, pc, passVars, result, passes,
                 trace, pre, failures>>
  /\ UNCHANGED ui

\* the user creates a task in the application
AddLocal ==
  /\ Idle /\ changes < MaxChanges /\ Len(taskDb) < MaxLocal
  /\ \E p \in LocalProfiles :
       taskDb' = Append(taskDb, LocalTask(Len(taskDb) + 1, p))
  /\ Changed
  /\ UNCHANGED <<signedIn, remoteVars, syncStore, pc, passVars, result,
                 passes, trace, pre, failures>>
  /\ UNCHANGED ui

\* the user edits a task in the application
EditLocal ==
  /\ Idle /\ changes < MaxChanges
  /\ \E i \in Indices(taskDb), p \in LocalProfiles :
       /\ taskDb[i] # LocalTask(taskDb[i].id, p)
       /\ taskDb' = [taskDb EXCEPT ![i] = LocalTask(taskDb[i].id, p)]
  /\ Changed
  /\ UNCHANGED <<signedIn, remoteVars, syncStore, pc, passVars, result,
                 passes, trace, pre, failures>>
  /\ UNCHANGED ui

\* the user creates a task in Microsoft To Do
AddRemote ==
  /\ Idle /\ changes < MaxChanges /\ nextMsId < FirstMsId + MaxRemote
  /\ \E l \in Indices(msLists), p \in RemoteProfiles :
       msDb' = Append(msDb, RemoteTask(nextMsId, msLists[l].id, p))
  /\ nextMsId' = nextMsId + 1
  /\ Changed
  /\ UNCHANGED <<signedIn, taskDb, msLists, syncStore, pc, passVars, result,
                 passes, trace, pre, failures>>
  /\ UNCHANGED ui

\* the user deletes a task in Microsoft To Do
DeleteRemote ==
  /\ Idle /\ changes < MaxChanges
  /\ \E i \in Indices(msDb) :
       msDb' = SelectSeq(msDb, LAMBDA t : t.id # msDb[i].id)
  /\ Changed
  /\ UNCHANGED <<signedIn, taskDb, msLists, nextMsId, syncStore, pc, passVars,
                 result, passes, trace, pre, failures>>
  /\ UNCHANGED ui

\* a clear that leaves the store as it is
ClearedNothing(store) == store

\* a clear that deletes the mappings and keeps the other keys
ClearedMappingsOnly(store) == [store EXCEPT !.taskMappings = EmptyMap]

\* line 390: syncStore.clear() resets every key to its default
Cleared(store) == Defaults

\* clearSyncData between two passes
clearSyncData ==
  /\ Idle /\ changes < MaxChanges
  /\ syncStore' = Cleared(syncStore)
  /\ Changed
  /\ UNCHANGED <<signedIn, taskDb, remoteVars, pc, passVars, result, passes,
                 trace, pre, failures>>
  /\ UNCHANGED ui

\* ------------------------------------------------------ syncWithMicrosoft
NewResult == [success |-> FALSE, pulled |-> 0, pushed |-> 0, errors |-> <<>>]

NoPass == [msListId |-> 0, msTasks |-> <<>>, localTasks |-> <<>>,
           taskMappings |-> EmptyMap, reverseMappings |-> EmptyMap, idx |-> 0]

SetPass(p) == /\ msListId' = p.msListId
              /\ msTasks' = p.msTasks
              /\ localTasks' = p.localTasks
              /\ taskMappings' = p.taskMappings
              /\ reverseMappings' = p.reverseMappings
              /\ idx' = p.idx

\* no call of the pass failed, remote updates aside, and it returned success
PassClean ==
  /\ result.success
  /\ \A i \in Indices(trace) : trace[i].op # "UpdateTask" => trace[i].ok

\* the local ids for which createMicrosoftTask returned null in the pass: the
\* POST failed, or the store write that follows it did
FailedCreates ==
  {trace[i].item : i \in {j \in Indices(trace) :
     \/ trace[j].op = "CreateTask" /\ ~trace[j].ok
     \/ /\ trace[j].op = "syncStore.set" /\ ~trace[j].ok
        /\ trace[j].item # 0}}

\* the precondition of line 251 left out
AlwaysSignedIn == TRUE

\* microsoftAuth.isMicrosoftSignedIn(), as line 251 asks it
isMicrosoftSignedIn == signedIn

\* lines 249-261: the precondition, then getGraphClient
BeginPass ==
  /\ Idle /\ passes < MaxPasses
  /\ passes' = passes + 1
  /\ trace' = <<>>
  /\ pre' = [signedIn |-> signedIn, syncStore |-> syncStore,
             taskDb |-> taskDb, msDb |-> msDb, msLists |-> msLists]
  /\ prev' = [dirty |-> FALSE, inRow |-> (pc = "done" /\ ~prev.dirty),
              clean |-> (pc = "done" /\ PassClean),
              failed |-> FailedCreates]
  /\ SetPass(NoPass)
  /\ IF ~isMicrosoftSignedIn
     THEN /\ result' = [NewResult EXCEPT
                          !.errors = <<Err("Not signed in to Microsoft", "")>>]
          /\ pc' = "done"
          /\ UNCHANGED failures
     ELSE \E client \in Outcomes(BOOLEAN, {TRUE}) :
            IF ~client
            THEN /\ result' = [NewResult EXCEPT
                          !.errors = <<Err("Failed to get Graph client", "")>>]
                 /\ pc' = "done"
                 /\ failures' = failures + 1
            ELSE /\ result' = NewResult
                 /\ pc' = "lists"
                 /\ UNCHANGED failures
  /\ UNCHANGED <<signedIn, taskDb, remoteVars, syncStore, changes>>

\* syncWithMicrosoft called directly, whatever the dialog shows
Begin == BeginPass /\ UNCHANGED ui

\* the find of line 269 left out: the first list returned, flagged or not
FirstMsList(lists) == IF Len(lists) > 0 THEN lists[1].id ELSE 0

\* msLists.find(l => l.wellknownListName === 'defaultList'), else msLists[0];
\* 0 when there is none
DefaultMsList(lists) ==
  IF \E i \in Indices(lists) : lists[i].wellknownListName = "defaultList"
  THEN lists[CHOOSE i \in Indices(lists) :
               /\ lists[i].wellknownListName = "defaultList"
               /\ \A j \in 1 .. (i - 1) :
                    lists[j].wellknownListName # "defaultList"].id
  ELSE IF Len(lists) > 0 THEN lists[1].id ELSE 0

\* the pass starting from an empty record instead of the persisted mappings
ReadNoMappings(store) == EmptyMap

\* line 266: const taskMappings = syncStore.get('taskMappings') || {}
ReadMappings(store) == store.taskMappings

\* the failed creation of the list recorded, but without the return of
\* line 281: the pass goes on to the pull with no list id
ListFailedGoesOn(res) ==
  [pc |-> "pull",
   result |-> [res EXCEPT !.errors = Append(@,
                 Err("Failed to create default list", ""))]]

\* lines 280-281: the error is recorded and the pass returns
ListFailed(res) ==
  [pc |-> "done",
   result |-> [res EXCEPT !.errors = Append(@,
                 Err("Failed to create default list", ""))]]

\* lines 263-285: getMicrosoftLists (an empty array when the call fails), the
\* mappings read from the store, the target list found or created
ResolveList ==
  /\ pc = "lists"
  /\ taskMappings' = ReadMappings(syncStore)
  /\ \E listsOk \in Outcomes(BOOLEAN, {TRUE}) :
       LET lists == IF listsOk THEN msLists ELSE <<>>
           found == DefaultMsList(lists)
           asked == Append(trace, Call("ListLists", 0, 0, listsOk))
           failed == IF listsOk THEN failures ELSE failures + 1
           room == Len(msLists) < MaxLists
       IN IF found # 0
          THEN /\ msListId' = found
               /\ trace' = asked
               /\ pc' = "pull"
               /\ failures' = failed
               /\ UNCHANGED <<msLists, result>>
          ELSE \E created \in {c \in BOOLEAN :
                                 IF c THEN room
                                 ELSE failed < MaxFailures \/ ~room} :
                 /\ trace' = Append(asked, Call("CreateList", 0, 0, created))
                 /\ failures' = IF created \/ ~room THEN failed ELSE failed + 1
                 /\ IF created
                    THEN /\ msLists' = Append(msLists,
                               [id |-> FirstListId + Len(msLists),
                                wellknownListName |-> "none"])
                         /\ msListId' = FirstListId + Len(msLists)
                         /\ pc' = "pull"
                         /\ UNCHANGED result
                    ELSE /\ LET failing == ListFailed(result)
                            IN result' = failing.result /\ pc' = failing.pc
                         /\ UNCHANGED <<msLists, msListId>>
  /\ UNCHANGED <<signedIn, taskDb, msDb, nextMsId, syncStore, msTasks,
                 localTasks, reverseMappings, idx, passes, changes, pre, prev>>
  /\ UNCHANGED ui

\* lines 299-303: microsoftId -> localId; of several local ids mapped to one
\* remote id the code keeps the last entry, the model any one of them
Reverse(mappings) ==
  [r \in Range(mappings) |-> CHOOSE l \in DOMAIN mappings : mappings[l] = r]

\* where the pass goes once the import loop is over
AfterImport(locals) == IF locals # <<>> THEN "push" ELSE "commit"

\* lines 287-303: getMicrosoftTasks (an empty array when the call fails),
\* taskService.getAll, msTaskMap and reverseMappings
Pull ==
  /\ pc = "pull"
  /\ \E pullOk \in Outcomes(BOOLEAN, {TRUE}) :
       /\ msTasks' = IF pullOk THEN TasksOfList(msListId) ELSE <<>>
       /\ trace' = Append(trace, Call("ListTasks", msListId, 0, pullOk))
       /\ failures' = IF pullOk THEN failures ELSE failures + 1
  /\ localTasks' = taskDb
  /\ reverseMappings' = Reverse(taskMappings)
  /\ idx' = 1
  /\ pc' = IF msTasks' # <<>> THEN "import" ELSE AfterImport(localTasks')
  /\ UNCHANGED <<signedIn, taskDb, remoteVars, syncStore, msListId,
                 taskMappings, result, passes, changes, pre, prev>>
  /\ UNCHANGED ui

\* the import loop without line 325
StageImportDropped(mappings, newId, msId) == mappings

\* line 325: taskMappings[newTask.id] = msTask.id
StageImport(mappings, newId, msId) == Put(mappings, newId, msId)

\* the push loop without line 341
StagePushDropped(mappings, localId, newMsId) == mappings

\* line 341: taskMappings[localTask.id] = newMsId
StagePush(mappings, localId, newMsId) == Put(mappings, localId, newMsId)

\* the loops with the try/catch around them instead of inside them: an item
\* that throws ends the loop and the pass
AdvanceUnlessThrown(phase, n, after, thrown) ==
  IF thrown THEN [pc |-> "done", idx |-> idx]
  ELSE IF idx < n THEN [pc |-> phase, idx |-> idx + 1]
  ELSE [pc |-> after, idx |-> 1]

\* lines 306, 327 and 334, 344, 353: the try/catch sits inside the loop body,
\* so the loop goes on to its next item whether or not this one threw; after
\* the last of the n items the pass goes on to the phase that follows
Advance(phase, n, after, thrown) ==
  IF idx < n THEN [pc |-> phase, idx |-> idx + 1]
  ELSE [pc |-> after, idx |-> 1]

\* the import loop without the reverse lookup of line 309
IsNewRemoteAlways(msTask) == TRUE

\* line 309-310: the remote task has no local counterpart
IsNewRemote(msTask) == msTask.id \notin DOMAIN reverseMappings

\* an error put at the head of the error list
RecordedFirst(errors, e) == <<e>> \o errors

\* line 328: result.errors.push(...)
Recorded(errors, e) == Append(errors, e)

\* the completed flag set on the oldest task of the store
CompletedFirst(db, id) == [db EXCEPT ![1].completed = TRUE]

\* line 321: taskService.update(newTask.id, { completed: true })
Completed(db, id) == [db EXCEPT ![id].completed = TRUE]

\* lines 306-331: one iteration of the import loop
ImportStep ==
  /\ pc = "import"
  /\ LET msTask == msTasks[idx]
         newId == Len(taskDb) + 1
         newTask == Created(newId, ImportFields(msTask))
         done == msTask.status = "completed"
         room == Len(taskDb) < MaxLocal
         failed == [result EXCEPT !.errors = Recorded(@,
                      Err("Failed to import task: ", msTask.title))]
     IN IF ~IsNewRemote(msTask)
        THEN /\ UNCHANGED <<taskDb, taskMappings, result, trace, failures>>
             /\ LET to == Advance("import", Len(msTasks),
                                  AfterImport(localTasks), FALSE)
                IN pc' = to.pc /\ idx' = to.idx
        ELSE \E outcome \in {"ok", "createFails", "updateFails"} :
               /\ LET to == Advance("import", Len(msTasks),
                                    AfterImport(localTasks), outcome # "ok")
                  IN pc' = to.pc /\ idx' = to.idx
               /\ outcome = "ok" => room
               /\ outcome = "createFails" => failures < MaxFailures \/ ~room
               /\ outcome = "updateFails" =>
                    done /\ room /\ failures < MaxFailures
               /\ failures' = IF outcome = "ok" \/ ~room THEN failures
                               ELSE failures + 1
               /\ CASE outcome = "ok" ->
                         /\ taskDb' = IF done
                                      THEN Completed(Append(taskDb, newTask),
                                                     newId)
                                      ELSE Append(taskDb, newTask)
                         /\ taskMappings' =
                              StageImport(taskMappings, newId, msTask.id)
                         /\ result' = [result EXCEPT !.pulled = @ + 1]
                         /\ trace' = trace
                              \o <<Call("taskService.create", 0, msTask.id, TRUE)>>
                              \o (IF done
                                  THEN <<Call("taskService.update", 0, newId, TRUE)>>
                                  ELSE <<>>)
                    [] outcome = "createFails" ->
                         /\ result' = failed
                         /\ trace' = Append(trace,
                              Call("taskService.create", 0, msTask.id, FALSE))
                         /\ UNCHANGED <<taskDb, taskMappings>>
                    [] outcome = "updateFails" ->
                         /\ taskDb' = Append(taskDb, newTask)
                         /\ result' = failed
                         /\ trace' = trace
                              \o <<Call("taskService.create", 0, msTask.id, TRUE),
                                   Call("taskService.update", 0, newId, FALSE)>>
                         /\ UNCHANGED taskMappings
  /\ UNCHANGED <<signedIn, remoteVars, syncStore, msListId, msTasks,
                 localTasks, reverseMappings, passes, changes, pre, prev>>
  /\ UNCHANGED ui

\* the guard of line 340 left out: whatever createMicrosoftTask returned is
\* staged and counted
PushedAlways(newMsId) == TRUE

\* line 340: if (newMsId), createMicrosoftTask returning null (here 0) when
\* the POST or its store write failed
Pushed(newMsId) == newMsId # 0

\* the update branch taken for every mapped task
msTaskMapHasAlways(msId) == TRUE

\* line 347: msTaskMap.has(msId)
msTaskMapHas(msId) == msId \in MsIds(msTasks)

\* the push loop going over the local store as it is when the loop runs
PushListLive(snapshot, db) == db

\* line 334: for (const localTask of localTasks), the array that line 291
\* got from taskService.getAll before the import loop ran
PushList(snapshot, db) == snapshot

\* lines 334-357: one iteration of the push loop.  createMicrosoftTask and
\* updateMicrosoftTask catch every error of theirs and return null / false
PushStep ==
  /\ pc = "push"
  /\ LET localTask == PushList(localTasks, taskDb)[idx]
         mapped == localTask.id \in DOMAIN taskMappings
         msTask == toMicrosoftTask(localTask)
         room == nextMsId < FirstMsId + MaxRemote
     IN IF ~mapped
        THEN \E outcome \in {"ok", "postFails", "storeFails"} :
               /\ outcome = "ok" => room
               /\ outcome = "postFails" => failures < MaxFailures \/ ~room
               /\ outcome = "storeFails" => room /\ failures < MaxFailures
               /\ failures' = IF outcome = "ok" \/ ~room THEN failures
                               ELSE failures + 1
               /\ IF outcome = "postFails"
                  THEN /\ trace' = Append(trace,
                            Call("CreateTask", msListId, localTask.id, FALSE))
                       /\ UNCHANGED <<msDb, nextMsId>>
                  ELSE /\ msDb' = Append(msDb, Posted(nextMsId, msListId, msTask))
                       /\ nextMsId' = nextMsId + 1
                       /\ trace' = trace
                            \o <<Call("CreateTask", msListId, localTask.id, TRUE),
                                 Call("syncStore.set", 0, localTask.id,
                                      outcome = "ok")>>
               /\ syncStore' = IF outcome = "ok"
                               THEN [syncStore EXCEPT !.taskMappings =
                                       Put(@, localTask.id, nextMsId)]
                               ELSE syncStore
               /\ LET newMsId == IF outcome = "ok" THEN nextMsId ELSE 0
                  IN IF Pushed(newMsId)
                     THEN /\ taskMappings' =
                               StagePush(taskMappings, localTask.id, newMsId)
                          /\ result' = [result EXCEPT !.pushed = @ + 1]
                     ELSE UNCHANGED <<taskMappings, result>>
        ELSE IF msTaskMapHas(taskMappings[localTask.id])
        THEN \E ok \in Outcomes(BOOLEAN, {TRUE}) :
               LET msId == taskMappings[localTask.id]
               IN /\ trace' = Append(trace, Call("UpdateTask", msListId, msId, ok))
                  /\ failures' = IF ok THEN failures ELSE failures + 1
                  /\ msDb' = IF ok
                             THEN [i \in Indices(msDb) |->
                                     IF msDb[i].id = msId /\ msDb[i].listId = msListId
                                     THEN Patched(msDb[i], msTask) ELSE msDb[i]]
                             ELSE msDb
                  /\ UNCHANGED <<nextMsId, syncStore, taskMappings, result>>
        ELSE UNCHANGED <<msDb, nextMsId, syncStore, taskMappings, result, trace,
                         failures>>
  /\ LET to == Advance("push", Len(PushList(localTasks, taskDb)), "commit",
                       FALSE)
     IN pc' = to.pc /\ idx' = to.idx
  /\ UNCHANGED <<signedIn, taskDb, msLists, msListId, msTasks, localTasks,
                 reverseMappings, passes, changes, pre, prev>>
  /\ UNCHANGED ui

\* the commit without line 360: only lastSyncTime is written
CommittedTimeOnly(store, mappings, now) ==
  [store EXCEPT !.lastSyncTime = now]

\* lines 360-361: both keys written
Committed(store, mappings, now) ==
  [store EXCEPT !.taskMappings = mappings, !.lastSyncTime = now]

\* success only when no item failed
SucceededIfNoErrors(res) == [res EXCEPT !.success = (res.errors = <<>>)]

\* line 363: result.success = true, whatever result.errors holds
Succeeded(res) == [res EXCEPT !.success = TRUE]

\* the outer handler left out: what is thrown leaves syncWithMicrosoft
OuterCatchRethrown(res, message) == [pc |-> "raised", result |-> res]

\* lines 365-369: what is thrown inside the try block is caught, recorded as
\* an error and the result returned with success = false
OuterCatch(res, message) ==
  [pc |-> "done", result |-> [res EXCEPT !.errors = Append(@, Err(message, ""))]]

\* a commit that stamps no time
NoTimestamp == NoTime

\* line 361: new Date().toISOString(); the number of the pass is the clock
Now == passes

\* lines 359-369: the two writes of the commit; a write that throws is caught
\* by the outer handler
Commit ==
  /\ pc = "commit"
  /\ \E outcome \in Outcomes({"ok", "mappingsFail", "timeFails"}, {"ok"}) :
       /\ failures' = IF outcome = "ok" THEN failures ELSE failures + 1
       /\ syncStore' =
            CASE outcome = "ok" -> Committed(syncStore, taskMappings, Now)
              [] outcome = "mappingsFail" -> syncStore
              [] outcome = "timeFails" ->
                   [syncStore EXCEPT !.taskMappings = taskMappings]
       /\ trace' = trace
            \o <<Call("syncStore.set", 0, 0, outcome # "mappingsFail")>>
            \o (IF outcome = "mappingsFail" THEN <<>>
                ELSE <<Call("syncStore.set", 0, 0, outcome = "ok")>>)
       /\ IF outcome = "ok"
          THEN result' = Succeeded(result) /\ pc' = "done"
          ELSE LET caught == OuterCatch(result, "Unknown sync error")
               IN result' = caught.result /\ pc' = caught.pc
  /\ UNCHANGED <<signedIn, taskDb, remoteVars, passVars, passes, changes,
                 pre, prev>>
  /\ UNCHANGED ui

\* ---------------------------------------------------------- specification
\* the dialog not shown, no sync call of it in flight; lost and clearedIn
\* record the mappings that the latest clear removed and the pass it fell in
NoDialog == [open |-> FALSE, mount |-> 0, isSyncing |-> FALSE, calls |-> <<>>,
             lost |-> EmptyMap, clearedIn |-> 0]

Init ==
  /\ signedIn \in BOOLEAN
  /\ taskDb \in {<<>>} \cup {<<LocalTask(1, p)>> : p \in LocalProfiles}
  /\ msLists \in
       { <<>>,
         <<[id |-> FirstListId, wellknownListName |-> "defaultList"]>>,
         <<[id |-> FirstListId, wellknownListName |-> "none"],
           [id |-> FirstListId + 1, wellknownListName |-> "defaultList"]>> }
  /\ msDb = <<>>
  /\ nextMsId = FirstMsId
  /\ syncStore = Defaults
  /\ pc = "idle"
  /\ msListId = 0 /\ msTasks = <<>> /\ localTasks = <<>>
  /\ taskMappings = EmptyMap /\ reverseMappings = EmptyMap /\ idx = 0
  /\ result = NewResult
  /\ passes = 0
  /\ changes = 0
  /\ failures = 0
  /\ trace = <<>>
  /\ pre = [signedIn |-> signedIn, syncStore |-> syncStore,
            taskDb |-> taskDb, msDb |-> msDb, msLists |-> msLists]
  /\ prev = [dirty |-> FALSE, inRow |-> FALSE, clean |-> FALSE, failed |-> {}]
  /\ ui = NoDialog

Next ==
  \/ SignInOut
  \/ AddLocal
  \/ EditLocal
  \/ AddRemote
  \/ DeleteRemote
  \/ clearSyncData
  \/ Begin
  \/ ResolveList
  \/ Pull
  \/ ImportStep
  \/ PushStep
  \/ Commit

Spec == Init /\ [][Next]_vars

TypeOK ==
  /\ pc \in {"idle", "lists", "pull", "import", "push", "commit", "done",
             "raised"}
  /\ passes \in 0 .. MaxPasses

\* ------------------------------------------------ the sync dialog and IPC
\* MicrosoftSync.tsx.  The component has no isOpen prop: it is shown by being
\* mounted, so each opening is a new instance whose state starts from the
\* useState defaults.  ui.calls holds the sync calls issued and not yet
\* returned, oldest first, each with the instance that issued it; the main
\* process is modelled running them one after the other with the one set of
\* pass locals.
syncState == <<signedIn, taskDb, remoteVars, syncStore, pc, passVars, result,
               passes, changes, failures, trace, pre, prev>>

\* the dialog is opened: lines 9-17, useState(false) for isSyncing
OpenDialog ==
  /\ ~ui.open /\ ui.mount < MaxMounts
  /\ ui' = [ui EXCEPT !.open = TRUE, !.mount = @ + 1, !.isSyncing = FALSE]
  /\ UNCHANGED syncState

\* lines 129-131: the close button calls onClose and the dialog is unmounted
CloseDialog ==
  /\ ui.open
  /\ ui' = [ui EXCEPT !.open = FALSE]
  /\ UNCHANGED syncState

\* lines 225 and 235: the Sync Now button is shown to a signed-in user and
\* disabled while this instance's isSyncing is set
SyncNowEnabled == ui.open /\ signedIn /\ ~ui.isSyncing

\* lines 75-80: setIsSyncing(true), then the sync call is issued
handleSync ==
  /\ SyncNowEnabled
  /\ passes + Len(ui.calls) < MaxPasses
  /\ ui' = [ui EXCEPT !.isSyncing = TRUE,
                      !.calls = Append(@, [mount |-> ui.mount,
                                           running |-> FALSE])]
  /\ UNCHANGED syncState

\* the main process takes up the oldest sync call: syncWithMicrosoft begins
ipcSync ==
  /\ ui.calls # <<>> /\ ~ui.calls[1].running
  /\ BeginPass
  /\ ui' = [ui EXCEPT !.calls[1].running = TRUE]

\* lines 81-96: the call returns; finally setIsSyncing(false), which reaches
\* only the instance that issued the call, if it is still mounted
SyncReturns ==
  /\ ui.calls # <<>> /\ ui.calls[1].running /\ pc = "done"
  /\ ui' = [ui EXCEPT
              !.calls = Tail(@),
              !.isSyncing = IF ui.open /\ ui.calls[1].mount = ui.mount
                            THEN FALSE ELSE @]
  /\ UNCHANGED syncState

\* a clear that also empties the local task database
handleClearSyncDataAndTasks ==
  /\ ui.open /\ signedIn /\ changes < MaxChanges
  /\ syncStore' = Cleared(syncStore)
  /\ taskDb' = <<>>
  /\ Changed
  /\ ui' = [ui EXCEPT !.lost = syncStore.taskMappings,
                      !.clearedIn = IF Idle THEN 0 ELSE passes]
  /\ UNCHANGED <<signedIn, remoteVars, pc, passVars, result, passes,
                 trace, pre, failures>>

\* lines 99-110 and 255-261: the Clear Data button is enabled whenever it is
\* shown, a pass in progress or not; clearSyncData runs at once
handleClearSyncData ==
  /\ ui.open /\ signedIn /\ changes < MaxChanges
  /\ syncStore' = Cleared(syncStore)
  /\ Changed
  /\ ui' = [ui EXCEPT !.lost = syncStore.taskMappings,
                      !.clearedIn = IF Idle THEN 0 ELSE passes]
  /\ UNCHANGED <<signedIn, taskDb, remoteVars, pc, passVars, result, passes,
                 trace, pre, failures>>

InitUI ==
  /\ signedIn = TRUE
  /\ taskDb \in {<<LocalTask(1, p)>> : p \in LocalProfiles}
  /\ msLists = <<[id |-> FirstListId, wellknownListName |-> "defaultList"]>>
  /\ msDb \in {<<>>} \cup {<<RemoteTask(FirstMsId, FirstListId, p)>> :
                             p \in RemoteProfiles}
  /\ nextMsId = FirstMsId + Len(msDb)
  /\ syncStore = Defaults
  /\ pc = "idle"
  /\ msListId = 0 /\ msTasks = <<>> /\ localTasks = <<>>
  /\ taskMappings = EmptyMap /\ reverseMappings = EmptyMap /\ idx = 0
  /\ result = NewResult
  /\ passes = 0
  /\ changes = 0
  /\ failures = MaxFailures - 1    \* at most one call fails
  /\ trace = <<>>
  /\ pre = [signedIn |-> signedIn, syncStore |-> syncStore,
            taskDb |-> taskDb, msDb |-> msDb, msLists |-> msLists]
  /\ prev = [dirty |-> FALSE, inRow |-> FALSE, clean |-> FALSE, failed |-> {}]
  /\ ui = NoDialog

NextUI ==
  \/ OpenDialog
  \/ CloseDialog
  \/ handleSync
  \/ ipcSync
  \/ SyncReturns
  \/ handleClearSyncData
  \/ ResolveList
  \/ Pull
  \/ ImportStep
  \/ PushStep
  \/ Commit

SpecUI == InitUI /\ [][NextUI]_vars

\* ------------------------------------------------ the field translations
\* One pass after another over one local task and one remote task whose
\* priority, completed flag, importance and status range over every value of
\* their types, an absent importance and an absent status included; no call
\* fails and the user changes nothing.
Absent == "absent"
Status == {"notStarted", "inProgress", "completed", "waitingOnOthers",
           "deferred"}

LocalFields ==
  {[title |-> "A", description |-> "", notes |-> "", priority |-> p,
    completed |-> c, dueDate |-> "", dueTime |-> ""] :
     p \in Priority, c \in BOOLEAN}

RemoteFields ==
  {[title |-> "X", body |-> NoBody, importance |-> i, status |-> st,
    dueDateTime |-> NoDue] :
     i \in Importance \cup {Absent}, st \in Status \cup {Absent}}

InitFields ==
  /\ signedIn = TRUE
  /\ taskDb \in {<<>>} \cup {<<LocalTask(1, f)>> : f \in LocalFields}
  /\ msLists = <<[id |-> FirstListId, wellknownListName |-> "defaultList"]>>
  /\ msDb \in {<<>>} \cup {<<RemoteTask(FirstMsId, FirstListId, f)>> :
                             f \in RemoteFields}
  /\ nextMsId = FirstMsId + Len(msDb)
  /\ syncStore = Defaults
  /\ pc = "idle"
  /\ msListId = 0 /\ msTasks = <<>> /\ localTasks = <<>>
  /\ taskMappings = EmptyMap /\ reverseMappings = EmptyMap /\ idx = 0
  /\ result = NewResult
  /\ passes = 0
  /\ changes = MaxChanges
  /\ failures = MaxFailures
  /\ trace = <<>>
  /\ pre = [signedIn |-> signedIn, syncStore |-> syncStore,
            taskDb |-> taskDb, msDb |-> msDb, msLists |-> msLists]
  /\ prev = [dirty |-> FALSE, inRow |-> FALSE, clean |-> FALSE, failed |-> {}]
  /\ ui = NoDialog

NextFields ==
  \/ Begin
  \/ ResolveList
  \/ Pull
  \/ ImportStep
  \/ PushStep
  \/ Commit

SpecFields == InitFields /\ [][NextFields]_vars

\* ------------------------------------------------- several items per loop
\* Passes over a target list that holds two remote tasks of different titles
\* and a local store of up to two tasks, nothing mapped at first; calls may
\* fail, and between two passes the user may delete a remote task.
InitOrder ==
  /\ signedIn = TRUE
  /\ taskDb \in {<<>>} \cup {<<LocalTask(1, p)>> : p \in LocalProfiles}
                \cup {<<LocalTask(1, p), LocalTask(2, q)>> :
                        p \in LocalProfiles, q \in LocalProfiles}
  /\ msLists = <<[id |-> FirstListId, wellknownListName |-> "defaultList"]>>
  /\ \E p \in RemoteProfiles, q \in RemoteProfiles :
       /\ p.title # q.title
       /\ msDb = <<RemoteTask(FirstMsId, FirstListId, p),
                   RemoteTask(FirstMsId + 1, FirstListId, q)>>
  /\ nextMsId = FirstMsId + Len(msDb)
  /\ syncStore = Defaults
  /\ pc = "idle"
  /\ msListId = 0 /\ msTasks = <<>> /\ localTasks = <<>>
  /\ taskMappings = EmptyMap /\ reverseMappings = EmptyMap /\ idx = 0
  /\ result = NewResult
  /\ passes = 0
  /\ changes = 0
  /\ failures = 0
  /\ trace = <<>>
  /\ pre = [signedIn |-> signedIn, syncStore |-> syncStore,
            taskDb |-> taskDb, msDb |-> msDb, msLists |-> msLists]
  /\ prev = [dirty |-> FALSE, inRow |-> FALSE, clean |-> FALSE, failed |-> {}]
  /\ ui = NoDialog

NextOrder ==
  \/ DeleteRemote
  \/ Begin
  \/ ResolveList
  \/ Pull
  \/ ImportStep
  \/ PushStep
  \/ Commit

SpecOrder == InitOrder /\ [][NextOrder]_vars

\* ------------------------------------------------------- passes that end
\* One pass after another, signed in or not, over at most one local task, at
\* most one list and at most one remote task; at most one call fails and the
\* user changes nothing.  Every awaited call returns or fails and the
\* statements between two awaits run to the next await, so a step of a pass
\* that can be taken is taken; when a pass begins is up to its caller.
InitLive ==
  /\ signedIn \in BOOLEAN
  /\ taskDb \in {<<>>} \cup {<<LocalTask(1, p)>> : p \in LocalProfiles}
  /\ msLists \in
       { <<>>,
         <<[id |-> FirstListId, wellknownListName |-> "defaultList"]>> }
  /\ msDb \in {<<>>} \cup {<<RemoteTask(FirstMsId, FirstListId, p)>> :
                             p \in IF msLists = <<>> THEN {}
                                   ELSE RemoteProfiles}
  /\ nextMsId = FirstMsId + Len(msDb)
  /\ syncStore = Defaults
  /\ pc = "idle"
  /\ msListId = 0 /\ msTasks = <<>> /\ localTasks = <<>>
  /\ taskMappings = EmptyMap /\ reverseMappings = EmptyMap /\ idx = 0
  /\ result = NewResult
  /\ passes = 0
  /\ changes = MaxChanges
  /\ failures = MaxFailures - 1
  /\ trace = <<>>
  /\ pre = [signedIn |-> signedIn, syncStore |-> syncStore,
            taskDb |-> taskDb, msDb |-> msDb, msLists |-> msLists]
  /\ prev = [dirty |-> FALSE, inRow |-> FALSE, clean |-> FALSE, failed |-> {}]
  /\ ui = NoDialog

NextLive ==
  \/ Begin
  \/ ResolveList
  \/ Pull
  \/ ImportStep
  \/ PushStep
  \/ Commit

SpecLive ==
  /\ InitLive /\ [][NextLive]_vars
  /\ WF_vars(ResolveList)
  /\ WF_vars(Pull)
  /\ WF_vars(ImportStep)
  /\ WF_vars(PushStep)
  /\ WF_vars(Commit)

\* ================================================================= claims
Returned == pc = "done" /\ ~prev.dirty

\* the local tasks of the snapshot that had no mapping when the pass began
NewLocal == {i \in Indices(localTasks) :
               localTasks[i].id \notin DOMAIN pre.syncStore.taskMappings}

\* the local ids created since the pass began
NewLocalIds == {taskDb[i].id : i \in (Len(pre.taskDb) + 1) .. Len(taskDb)}

\* the remote ids created since the pass began
NewMsIds == MsIds(msDb) \ MsIds(pre.msDb)

Calls(op, ok) == {i \in Indices(trace) : trace[i].op = op /\ trace[i].ok = ok}

CommitFailed ==
  /\ trace # <<>>
  /\ trace[Len(trace)] = Call("syncStore.set", 0, 0, FALSE)

CommitDone ==
  /\ Len(trace) >= 2
  /\ trace[Len(trace)] = Call("syncStore.set", 0, 0, TRUE)
  /\ trace[Len(trace) - 1] = Call("syncStore.set", 0, 0, TRUE)

C2_PartialFailure ==
  (Returned /\ CommitDone /\ Calls("syncStore.set", FALSE) = {})
    => LET failed == {i \in NewLocal :
                        Call("CreateTask", msListId, localTasks[i].id, FALSE)
                          \in Range(trace)}
           pushErrors == {j \in Indices(result.errors) :
                            \E i \in failed :
                              result.errors[j] = Err("Failed to push task: ",
                                                     localTasks[i].title)}
       IN /\ result.pushed = Cardinality(NewLocal) - Cardinality(failed)
          /\ Cardinality(pushErrors) = Cardinality(failed)
          /\ \A i \in NewLocal \ failed :
               localTasks[i].id \in DOMAIN syncStore.taskMappings

\* C3: in the persisted mapping store no remote id is the target of two local
\* ids (a local id has one remote id, the store being keyed by local id)
C3_NoDuplicateMapping == Injective(syncStore.taskMappings)

\* two mappings persisted by a second pass that followed a change
C3_Witness ==
  /\ pc = "done" /\ passes >= 2 /\ changes >= 1
  /\ Cardinality(DOMAIN syncStore.taskMappings) >= 2
  /\ Cardinality(Range(syncStore.taskMappings)) >= 2

\* C4: every unmapped remote task of the pull whose local create succeeded
\* has, after a pass whose commit succeeded, one new local task mapped to it
\* in the store, and pulled counts exactly these remote tasks
C4_NewRemoteImport ==
  (Returned /\ CommitDone)
    => LET imported == {i \in Indices(msTasks) :
                          /\ msTasks[i].id \notin Range(pre.syncStore.taskMappings)
                          /\ Call("taskService.create", 0, msTasks[i].id, TRUE)
                               \in Range(trace)}
       IN /\ \A i \in imported :
               Cardinality({l \in NewLocalIds :
                              /\ l \in DOMAIN syncStore.taskMappings
                              /\ syncStore.taskMappings[l] = msTasks[i].id}) = 1
          /\ Cardinality(NewLocalIds) = Cardinality(imported)
          /\ result.pulled = Cardinality(imported)

\* the unmapped local tasks of the snapshot for which createMicrosoftTask
\* returned an id
Exported ==
  {i \in NewLocal :
     \E j \in 1 .. (Len(trace) - 1) :
       /\ trace[j] = Call("CreateTask", msListId, localTasks[i].id, TRUE)
       /\ trace[j + 1] = Call("syncStore.set", 0, localTasks[i].id, TRUE)}

C6_ExistingBothUpdate ==
  Returned
    => \A i \in Indices(localTasks) :
         LET L == localTasks[i]
         IN L.id \in DOMAIN pre.syncStore.taskMappings
            => LET R == pre.syncStore.taskMappings[L.id]
               IN Call("UpdateTask", msListId, R, TRUE) \in Range(trace)
                  => \A k \in Indices(msDb) :
                       msDb[k].id = R
                         => msDb[k] = Posted(R, msListId, toMicrosoftTask(L))

\* C7: a pass whose commit failed returns success = false and leaves the
\* persisted mappings as they were when the pass began
C7_CommitFailure ==
  (Returned /\ CommitFailed)
    => /\ ~result.success
       /\ syncStore.taskMappings = pre.syncStore.taskMappings

\* C8: a pass begun while not signed in returns the one error, counts nothing,
\* issues no call and leaves both task stores and the sync store as they were
C8_NotSignedIn ==
  (Returned /\ ~pre.signedIn)
    => /\ result = [success |-> FALSE, pulled |-> 0, pushed |-> 0,
                    errors |-> <<Err("Not signed in to Microsoft", "")>>]
       /\ trace = <<>>
       /\ taskDb = pre.taskDb
       /\ msDb = pre.msDb /\ msLists = pre.msLists
       /\ syncStore = pre.syncStore

\* a pass refused for want of a session although both sides held tasks
C8_Witness ==
  /\ Returned /\ ~pre.signedIn /\ passes >= 1
  /\ taskDb # <<>> /\ msDb # <<>>

ItemOps == {"taskService.create", "taskService.update", "CreateTask",
            "UpdateTask"}

\* C9: the pass never raises, and each item of the import loop and of the push
\* loop is followed by the next item of its loop, or after the last item by
\* the next phase, whether or not the item failed
C9_ItemFailureTolerance ==
  /\ [](pc # "raised")
  /\ [][/\ pc = "import" =>
             IF idx < Len(msTasks) THEN pc' = "import" /\ idx' = idx + 1
             ELSE pc' \in {"push", "commit"}
        /\ pc = "push" =>
             IF idx < Len(localTasks) THEN pc' = "push" /\ idx' = idx + 1
             ELSE pc' = "commit"]_vars

\* a pass in which an item failed and a later item was still processed
C9_Witness ==
  /\ Returned
  /\ \E j, k \in Indices(trace) :
       /\ j < k
       /\ trace[j].op \in ItemOps /\ ~trace[j].ok
       /\ trace[k].op \in ItemOps /\ trace[k].item # trace[j].item

ErrorsSaying(msg) == {j \in Indices(result.errors) : result.errors[j].msg = msg}

\* the pass got as far as its commit
CommitReached == CommitDone \/ CommitFailed

\* C11: a returned pass carries one "Failed to update task" error for each
\* remote update call of its that failed, and a pass with a failed update
\* still went through its remaining items up to the commit
C11_UpdateFailureRecorded ==
  Returned
    => /\ Cardinality(ErrorsSaying("Failed to update task: "))
            = Cardinality(Calls("UpdateTask", FALSE))
       /\ Calls("UpdateTask", FALSE) # {} => CommitReached

\* C12: a returned pass whose ListTasks call failed has an error in its error
\* list, so it is not a success with no errors
C12_PullFailureRecorded ==
  (Returned /\ Calls("ListTasks", FALSE) # {})
    => /\ result.errors # <<>>
       /\ ~(result.success /\ result.errors = <<>>)

LocalIds(tasks) == {tasks[i].id : i \in Indices(tasks)}

\* C13: after a pass, a remote task whose import recorded an error (the local
\* create threw, or the completed-flag update after it did) has no local task
\* in the local store and no staged mapping, and pulled counts only the
\* imports without error
C13_NoDanglingImport ==
  Returned
    => /\ \A j \in Calls("taskService.create", FALSE) :
            trace[j].item \notin Range(taskMappings)
       /\ \A j \in Calls("taskService.update", FALSE) :
            /\ trace[j].item \notin LocalIds(taskDb)
            /\ trace[j].item \notin DOMAIN taskMappings
            /\ trace[j - 1].item \notin Range(taskMappings)
       /\ Cardinality(NewLocalIds) = result.pulled
       /\ result.pulled = Cardinality(Calls("taskService.create", TRUE))
                            - Cardinality(Calls("taskService.update", FALSE))
       /\ Cardinality(ErrorsSaying("Failed to import task: "))
            = Cardinality(Calls("taskService.create", FALSE))
                + Cardinality(Calls("taskService.update", FALSE))

\* C14: from the start of a pass up to its commit step the sync store is as
\* it was when the pass began: nothing is written to it per task
C14_CommitOnlyPersistence ==
  pc \in {"lists", "pull", "import", "push", "commit"}
    => syncStore = pre.syncStore

\* C15: the commit step either leaves the store as it is or replaces the
\* mappings and lastSyncTime together; it never leaves one of the two new and
\* the other old
C15_AtomicCommit ==
  [][pc = "commit"
       => \/ syncStore' = syncStore
          \/ /\ syncStore'.taskMappings = taskMappings
             /\ syncStore'.lastSyncTime = passes]_vars

\* the local tasks of the snapshot whose mapping, as persisted when the pass
\* began, names a remote id that the pull did not return
MappedMissing ==
  {i \in Indices(localTasks) :
     /\ localTasks[i].id \in DOMAIN pre.syncStore.taskMappings
     /\ pre.syncStore.taskMappings[localTasks[i].id] \notin MsIds(msTasks)}

RemoteOps == {"CreateTask", "UpdateTask"}

\* C16: for a local task mapped to a remote id that is not in the pull, the
\* pass calls neither create nor update, leaves the remote task (if any) and
\* the local task as they were, and counts only new remote tasks in pulled
\* and only exported new local tasks in pushed
C16_MappedMissingUntouched ==
  Returned
    => \A i \in MappedMissing :
         LET L == localTasks[i]
             R == pre.syncStore.taskMappings[L.id]
         IN /\ \A j \in Indices(trace) :
                 trace[j].op \in RemoteOps => trace[j].item \notin {L.id, R}
            /\ \A k \in Indices(pre.msDb) :
                 pre.msDb[k].id = R
                   => \E n \in Indices(msDb) : msDb[n] = pre.msDb[k]
            /\ taskDb[i] = L /\ pre.taskDb[i] = L
            /\ i \notin Exported
            /\ result.pushed = Cardinality(Exported)
            /\ result.pulled <= Cardinality(
                 MsIds(msTasks) \ Range(pre.syncStore.taskMappings))

\* a successful pass over a mapped local task whose remote task the pull did
\* not return, and an unmapped local task that it exported
C16_Witness ==
  /\ Returned /\ result.success
  /\ MappedMissing # {}
  /\ result.pushed >= 1

\* C17: every step other than clearSyncData keeps each persisted mapping, with
\* the remote id it had
C17_MappingsKept ==
  [][clearSyncData
       \/ \A l \in DOMAIN syncStore.taskMappings :
            /\ l \in DOMAIN syncStore'.taskMappings
            /\ syncStore'.taskMappings[l] = syncStore.taskMappings[l]]_vars

\* a second pass that committed new mappings next to those it found
C17_Witness ==
  /\ Returned /\ CommitDone /\ passes >= 2
  /\ pre.syncStore.taskMappings # EmptyMap
  /\ Cardinality(DOMAIN syncStore.taskMappings)
       > Cardinality(DOMAIN pre.syncStore.taskMappings)
  /\ \A l \in DOMAIN pre.syncStore.taskMappings :
       /\ l \in DOMAIN syncStore.taskMappings
       /\ syncStore.taskMappings[l] = pre.syncStore.taskMappings[l]

\* C18: in a returned pass no item has two remote create or update calls; a
\* local task whose create failed has no mapping, staged or persisted; a pass
\* that gets to its loops calls create for every local task whose create
\* failed in the pass before; and a task whose create succeeded is mapped in
\* the store once the commit has succeeded
C18_RetryOnNextPass ==
  Returned
    => /\ \A j, k \in Indices(trace) :
            /\ trace[j].op \in RemoteOps /\ trace[k].op \in RemoteOps
            /\ trace[j].item = trace[k].item
            => j = k
       /\ \A l \in FailedCreates :
            /\ l \notin DOMAIN taskMappings
            /\ l \notin DOMAIN syncStore.taskMappings
       /\ (\E j \in Indices(trace) : trace[j].op = "ListTasks")
            => \A l \in prev.failed :
                 \E j \in Indices(trace) :
                   trace[j].op = "CreateTask" /\ trace[j].item = l
       /\ CommitDone
            => \A i \in Exported :
                 localTasks[i].id \in DOMAIN syncStore.taskMappings

\* a local task whose create failed in one pass, exported and mapped by the
\* next
C18_Witness ==
  /\ Returned /\ CommitDone
  /\ \E i \in Exported :
       /\ localTasks[i].id \in prev.failed
       /\ localTasks[i].id \in DOMAIN syncStore.taskMappings

\* C19: a pass calls CreateList only when the remote service held no list
\* when the pass began
C19_ListCreatedOnlyWhenNone ==
  \A i \in Indices(trace) : trace[i].op = "CreateList" => pre.msLists = <<>>

\* C20: a pass whose creation of the target list failed returns failed with
\* that one error, made no call after it (no pull, no local create, no remote
\* create or update) and left the task stores and the sync store as they were
C20_ListCreationFailure ==
  (Returned /\ Calls("CreateList", FALSE) # {})
    => /\ result = [success |-> FALSE, pulled |-> 0, pushed |-> 0,
                    errors |-> <<Err("Failed to create default list", "")>>]
       /\ Len(trace) = 2
       /\ trace[1].op = "ListLists"
       /\ trace[2] = Call("CreateList", 0, 0, FALSE)
       /\ taskDb = pre.taskDb
       /\ msDb = pre.msDb
       /\ syncStore = pre.syncStore

\* a pass over a local task that stopped at the failed creation of the list
C20_Witness ==
  /\ Returned /\ Calls("CreateList", FALSE) # {}
  /\ pre.taskDb # <<>>
  /\ ~result.success

\* the lists that getMicrosoftLists returned to the pass: those the remote
\* held when the pass began, or none when the call failed
ListsReturned ==
  IF \E i \in Indices(trace) : trace[i].op = "ListLists" /\ trace[i].ok
  THEN pre.msLists ELSE <<>>

Flagged(lists) ==
  {lists[i].id : i \in {j \in Indices(lists) :
                          lists[j].wellknownListName = "defaultList"}}

\* C21: once the target list of a pass is chosen it is the flagged default
\* list when one was returned, otherwise the first list returned, and every
\* ListTasks, CreateTask and UpdateTask call of the pass names that list
C21_TargetListSelection ==
  pc \in {"pull", "import", "push", "commit", "done"}
    => /\ Flagged(ListsReturned) # {} => msListId \in Flagged(ListsReturned)
       /\ (ListsReturned # <<>> /\ Flagged(ListsReturned) = {})
            => msListId = ListsReturned[1].id
       /\ \A i \in Indices(trace) :
            trace[i].op \in {"ListTasks", "CreateTask", "UpdateTask"}
              => trace[i].list = msListId /\ msListId # 0

\* a pass that pulled from, created in and updated in the flagged list, which
\* was not the first list returned
C21_Witness ==
  /\ Returned /\ result.success
  /\ Len(ListsReturned) >= 2
  /\ ListsReturned[1].id # msListId
  /\ Calls("ListTasks", TRUE) # {}
  /\ Calls("CreateTask", TRUE) # {}
  /\ Calls("UpdateTask", TRUE) # {}

Cleared0 == [lastSyncTime |-> NoTime, taskCount |-> 0, listCount |-> 0]

\* C22: right after a clear made from the dialog, a pass in progress or not,
\* getSyncStatus reports no lastSyncTime, taskCount = 0 and listCount = 0
C22_ClearThenStatus ==
  [][handleClearSyncData => getSyncStatus' = Cleared0]_vars

\* the state right after a clear that removed mappings and a lastSyncTime
\* while a later pass was in progress
C22_Witness ==
  /\ changes >= 1
  /\ ui.lost # EmptyMap /\ ui.clearedIn = passes /\ pc \notin {"idle", "done"}
  /\ pre.syncStore.lastSyncTime # NoTime
  /\ getSyncStatus = Cleared0

\* C23: a clear leaves the local tasks, the remote tasks and lists and all
\* their fields as they are, and issues no gateway or local-store call
C23_ClearForgetsOnly ==
  [][handleClearSyncData
       => /\ taskDb' = taskDb
          /\ msDb' = msDb /\ msLists' = msLists /\ nextMsId' = nextMsId
          /\ trace' = trace]_vars

\* mappings cleared while both sides hold the tasks they were made for
C23_Witness ==
  /\ changes >= 1
  /\ syncStore = Defaults
  /\ \E l \in DOMAIN ui.lost :
       l \in LocalIds(taskDb) /\ ui.lost[l] \in MsIds(msDb)

\* C25: the dialog never has two sync calls in progress at once
C25_SingleFlight == Len(ui.calls) <= 1

\* C30: once a pass during which the store was cleared has returned, the
\* store holds none of the mappings that the clear removed
C30_ClearNotUndone ==
  (pc = "done" /\ ui.clearedIn = passes)
    => \A l \in DOMAIN ui.lost :
         ~(/\ l \in DOMAIN syncStore.taskMappings
           /\ syncStore.taskMappings[l] = ui.lost[l])

\* the step with which a pass returns
Returns == pc # "done" /\ pc' = "done"

\* what a step that is not a clear does to lastSyncTime: it changes it only
\* by returning success, a pass that returns success leaves its commit time
\* in it, and a pass that returns failed leaves it as it was at its beginning
CursorStep ==
  /\ syncStore'.lastSyncTime # syncStore.lastSyncTime
       => Returns /\ result'.success
  /\ (Returns /\ result'.success) => syncStore'.lastSyncTime = passes'
  /\ (Returns /\ ~result'.success)
       => syncStore'.lastSyncTime = pre'.syncStore.lastSyncTime

\* C24 as stated: lastSyncTime is absent before the first pass and every
\* step, a clear included, changes it only as a pass that returns does
C24_SyncCursor ==
  /\ [](passes = 0 => syncStore.lastSyncTime = NoTime)
  /\ [][CursorStep]_vars

\* C24 amended: the same, except that clearSyncData resets lastSyncTime to
\* absent
C24_SyncCursorOrClear ==
  /\ [](passes = 0 => syncStore.lastSyncTime = NoTime)
  /\ [][IF clearSyncData THEN syncStore'.lastSyncTime = NoTime
        ELSE CursorStep]_vars

\* a second pass that returned failed at its commit and left the time of the
\* first pass in the store
C24_Witness ==
  /\ Returned /\ CommitFailed /\ ~result.success
  /\ passes = 2
  /\ syncStore.lastSyncTime = 1
  /\ pre.syncStore.lastSyncTime = 1

\* the mapping entries that the store holds and did not hold when the pass
\* began
Added == DOMAIN syncStore.taskMappings \ DOMAIN pre.syncStore.taskMappings

\* C29: after a pass that returned success, pulled is the number of entries
\* added for local tasks that the pass imported, pushed the number added for
\* local tasks that it exported, the mapping count is the count before the
\* pass plus pulled plus pushed, and the entries of the tasks present on both
\* sides are as they were, their update having succeeded or not
C29_CounterAccounting ==
  (Returned /\ result.success)
    => /\ result.pulled = Cardinality(Added \cap NewLocalIds)
       /\ result.pushed = Cardinality(Added \cap LocalIds(localTasks))
       /\ getSyncStatus.taskCount
            = Cardinality(DOMAIN pre.syncStore.taskMappings)
                + result.pulled + result.pushed
       /\ \A l \in DOMAIN pre.syncStore.taskMappings :
            /\ l \in DOMAIN syncStore.taskMappings
            /\ syncStore.taskMappings[l] = pre.syncStore.taskMappings[l]

\* a successful pass that added an entry, over a task present on both sides
\* whose update failed
C29_Witness ==
  /\ Returned /\ result.success
  /\ result.pulled + result.pushed >= 1
  /\ Calls("UpdateTask", FALSE) # {}
  /\ getSyncStatus.taskCount >= 2

\* the remote task of the pull with the given id
Pulled(msId) == msTasks[CHOOSE k \in Indices(msTasks) : msTasks[k].id = msId]

\* the local tasks that the pass imported: created by it and mapped
Imported == NewLocalIds \cap DOMAIN taskMappings

\* C26: an exported remote task has the importance that the table gives for
\* the local priority (high to high, medium to normal, low to low, none to
\* normal), and an imported local task the priority that it gives for the
\* remote importance (high to high, low to low, normal to none)
C26_PriorityTable ==
  Returned
    => /\ \A i \in Exported :
            LET p == localTasks[i].priority
                sent == toMicrosoftImportance(p)
            IN /\ Call("CreateTask", msListId, localTasks[i].id, TRUE)
                    \in Range(trace)
               /\ p = "high" => sent = "high"
               /\ p = "medium" => sent = "normal"
               /\ p = "low" => sent = "low"
               /\ p = "none" => sent = "normal"
       /\ \A l \in Imported :
            LET imp == Pulled(taskMappings[l]).importance
                got == taskDb[l].priority
            IN /\ imp = "high" => got = "high"
               /\ imp = "low" => got = "low"
               /\ imp = "normal" => got = "none"

\* C27: for the priority of every local task and the importance of every
\* remote task, both translations yield a value of the other type, a priority
\* other than none comes back from its importance, and an importance comes
\* back from its priority
C27_PriorityRoundTrip ==
  /\ \A i \in Indices(taskDb) :
       LET p == taskDb[i].priority
       IN /\ toMicrosoftImportance(p) \in Importance
          /\ p \in {"high", "medium", "low"}
               => fromMicrosoftImportance(toMicrosoftImportance(p)) = p
  /\ \A k \in Indices(msDb) :
       LET imp == msDb[k].importance
       IN /\ fromMicrosoftImportance(imp) \in Priority
          /\ imp \in Importance
               => toMicrosoftImportance(fromMicrosoftImportance(imp)) = imp

\* a remote task of importance normal, imported with priority medium by one
\* pass and updated by the next, still of importance normal
C27_Witness ==
  /\ Returned /\ passes = 2
  /\ \E l \in DOMAIN syncStore.taskMappings :
       /\ l \in LocalIds(taskDb) /\ taskDb[l].priority = "medium"
       /\ syncStore.taskMappings[l] \in MsIds(pre.msDb)
       /\ Pulled(syncStore.taskMappings[l]).importance = "normal"
       /\ Call("UpdateTask", msListId, syncStore.taskMappings[l], TRUE)
            \in Range(trace)
       /\ \E k \in Indices(pre.msDb) :
            /\ pre.msDb[k].id = syncStore.taskMappings[l]
            /\ pre.msDb[k].importance = "normal"

\* the local task that the j-th call of the trace, a taskService.create that
\* returned, created: the database numbers its tasks in creation order
CreatedBy(j) ==
  Len(pre.taskDb)
    + Cardinality({k \in Calls("taskService.create", TRUE) : k <= j})

\* C28: after a pass, every local task that the import created from a remote
\* task is completed exactly when that remote task's status is completed,
\* and every remote task that the pass exported or updated has the status
\* completed exactly when the local task's completed flag is set
C28_CompletionTranslation ==
  Returned
    => /\ \A j \in Calls("taskService.create", TRUE) :
            taskDb[CreatedBy(j)].completed
              <=> Pulled(trace[j].item).status = "completed"
       /\ \A i \in Indices(localTasks) :
            LET L == localTasks[i]
                sent == \/ i \in Exported
                        \/ /\ L.id \in DOMAIN pre.syncStore.taskMappings
                           /\ Call("UpdateTask", msListId,
                                   taskMappings[L.id], TRUE) \in Range(trace)
            IN sent => \A k \in Indices(msDb) :
                         msDb[k].id = taskMappings[L.id]
                           => (msDb[k].status = "completed" <=> L.completed)

\* no call of the pass failed and it returned success
FailureFree ==
  /\ result.success
  /\ \A j \in Indices(trace) : trace[j].ok

\* C31: a pass issues remote creates only for local tasks of its snapshot and
\* neither creates nor updates a remote task for a local task that its import
\* created; after a pass without a failure the local store holds the tasks it
\* held before plus pulled, and the remote the tasks it held plus pushed
C31_NoEchoWithinPass ==
  ~prev.dirty
    => /\ \A j \in Indices(trace) :
            /\ trace[j].op = "CreateTask"
                 => /\ trace[j].item \in LocalIds(localTasks)
                    /\ trace[j].item \notin NewLocalIds
            /\ trace[j].op = "UpdateTask"
                 => \A l \in NewLocalIds \cap DOMAIN taskMappings :
                      taskMappings[l] # trace[j].item
       /\ (Returned /\ FailureFree)
            => /\ Len(taskDb) = Len(pre.taskDb) + result.pulled
               /\ Len(msDb) = Len(pre.msDb) + result.pushed

\* a pass without a failure that imported a remote task and exported a local
\* one
C31_Witness ==
  /\ Returned /\ FailureFree
  /\ result.pulled >= 1 /\ result.pushed >= 1
  /\ NewLocalIds # {}
  /\ Len(taskDb) = Len(pre.taskDb) + result.pulled

\* C32: from its beginning on, a pass leaves every local task that existed
\* before it as it was; each local create of the pass is for a remote task of
\* the pull that had no mapping, at most one per remote task, and the task it
\* made carries the imported fields; each local update sets the completed
\* flag of the task that the create before it made, for a completed remote
\* task; and the store holds no other new task
C32_LocalStoreFrame ==
  (pc # "idle" /\ ~prev.dirty)
    => /\ Len(taskDb) >= Len(pre.taskDb)
       /\ \A i \in Indices(pre.taskDb) : taskDb[i] = pre.taskDb[i]
       /\ \A j \in Indices(trace) :
            /\ trace[j].op = "taskService.create"
                 => /\ trace[j].item \in MsIds(msTasks)
                    /\ trace[j].item \notin Range(pre.syncStore.taskMappings)
                    /\ \A k \in Indices(trace) :
                         (trace[k].op = "taskService.create"
                            /\ trace[k].item = trace[j].item) => k = j
                    /\ trace[j].ok
                         => [taskDb[CreatedBy(j)] EXCEPT !.completed = FALSE]
                              = Created(CreatedBy(j),
                                        ImportFields(Pulled(trace[j].item)))
            /\ trace[j].op = "taskService.update"
                 => /\ j > 1
                    /\ trace[j - 1].op = "taskService.create"
                    /\ trace[j - 1].ok
                    /\ trace[j].item = CreatedBy(j - 1)
                    /\ Pulled(trace[j - 1].item).status = "completed"
                    /\ taskDb[trace[j].item].completed = trace[j].ok
       /\ Cardinality(NewLocalIds)
            = Cardinality(Calls("taskService.create", TRUE))

\* a second pass that imported a completed remote task, setting the flag on
\* the new local task, and updated the remote task of a local task mapped
\* before it
C32_Witness ==
  /\ Returned /\ passes = 2
  /\ Calls("taskService.update", TRUE) # {}
  /\ \E i \in Indices(pre.taskDb) :
       /\ pre.taskDb[i].id \in DOMAIN pre.syncStore.taskMappings
       /\ Call("UpdateTask", msListId,
               pre.syncStore.taskMappings[pre.taskDb[i].id], TRUE)
            \in Range(trace)
       /\ ~pre.taskDb[i].completed
       /\ taskDb[i] = pre.taskDb[i]

\* the state before the latest clear had n local tasks mapped one-to-one to
\* the n remote tasks, all in the target list, the clear was made between two
\* passes, and the pass that followed it has returned without a failure
ResyncedAfterClear ==
  /\ pc = "done" /\ passes >= 1
  /\ changes >= 1 /\ ui.clearedIn = 0 /\ ~prev.dirty
  /\ FailureFree
  /\ DOMAIN ui.lost = LocalIds(pre.taskDb)
  /\ Range(ui.lost) = MsIds(pre.msDb)
  /\ Injective(ui.lost)
  /\ \A k \in Indices(pre.msDb) : pre.msDb[k].listId = msListId

LocalOps == {"taskService.create", "taskService.update"}

\* the place of a call in the order of the pass: list resolution, pull, the
\* import loop, the push loop with its per-task store writes, the commit
Rank(call) ==
  CASE call.op = "ListLists" -> 1
    [] call.op = "CreateList" -> 2
    [] call.op = "ListTasks" -> 3
    [] call.op \in LocalOps -> 4
    [] call.op \in RemoteOps -> 5
    [] call.op = "syncStore.set" /\ call.item # 0 -> 5
    [] OTHER -> 6

\* the position in the snapshot of the local task that a remote create or
\* update call is for
PushIndex(call) ==
  CHOOSE i \in Indices(localTasks) :
    \/ call.op = "CreateTask" /\ localTasks[i].id = call.item
    \/ /\ call.op = "UpdateTask"
       /\ localTasks[i].id \in DOMAIN taskMappings
       /\ taskMappings[localTasks[i].id] = call.item

\* the remote id that the j-th call of the trace, a local create or the
\* update that follows one, is importing
ImportedBy(j) ==
  IF trace[j].op = "taskService.create" THEN trace[j].item
  ELSE trace[j - 1].item

\* the position of that remote task in the pull
ImportIndex(j) ==
  CHOOSE k \in Indices(msTasks) : msTasks[k].id = ImportedBy(j)

FailedImports == {j \in Indices(trace) : trace[j].op \in LocalOps /\ ~trace[j].ok}

\* the calls of a pass are issued one after the other, each with its outcome
\* before the next: list resolution, then the pull, then the local writes of
\* the import in the order of the pull, then at most one remote create or
\* update per local task in the order of the snapshot; and the import errors
\* are in the error list in the order of the failed imports, before every
\* other entry
CallsAndErrorsOrdered ==
  ~prev.dirty
    => /\ \A j, k \in Indices(trace) :
            j < k
              => /\ Rank(trace[j]) <= Rank(trace[k])
                 /\ Rank(trace[j]) \in {1, 2, 3}
                      => Rank(trace[j]) < Rank(trace[k])
                 /\ (trace[j].op \in LocalOps /\ trace[k].op \in LocalOps)
                      => /\ ImportIndex(j) <= ImportIndex(k)
                         /\ ImportIndex(j) = ImportIndex(k)
                              => (k = j + 1 /\ trace[k].op = "taskService.update")
                 /\ (trace[j].op \in RemoteOps /\ trace[k].op \in RemoteOps)
                      => PushIndex(trace[j]) < PushIndex(trace[k])
       /\ \A j \in Indices(trace) :
            /\ trace[j].op \in RemoteOps
                 => \E i \in Indices(localTasks) : i = PushIndex(trace[j])
                      /\ \/ localTasks[i].id = trace[j].item
                         \/ taskMappings[localTasks[i].id] = trace[j].item
            /\ Rank(trace[j]) > 1 => trace[1].op = "ListLists"
            /\ Rank(trace[j]) > 3 => \E k \in 1 .. (j - 1) :
                                       trace[k].op = "ListTasks"
       /\ LET E == ErrorsSaying("Failed to import task: ")
              F == FailedImports
          IN /\ Cardinality(E) = Cardinality(F)
             /\ \A e \in E :
                  \E j \in F :
                    /\ Cardinality({f \in F : f <= j})
                         = Cardinality({x \in E : x <= e})
                    /\ result.errors[e].title = Pulled(ImportedBy(j)).title
             /\ \A e \in E, x \in Indices(result.errors) \ E : e < x

\* the pass is through its push loop
PushLoopOver == pc = "commit" \/ (pc = "done" /\ CommitReached)

\* the local tasks of the snapshot for which the pass made a remote call
Called ==
  {PushIndex(trace[j]) : j \in {k \in Indices(trace) : trace[k].op \in RemoteOps}}

\* C34 as stated, as long as no call of any pass has failed: the calls and
\* the errors are in that order, and once the push loop is over every local
\* task of the snapshot has had its one remote create or update
C34_SequentialOrdered ==
  /\ CallsAndErrorsOrdered
  /\ (/\ ~prev.dirty /\ PushLoopOver
      /\ failures = 0 /\ \A j \in Indices(trace) : trace[j].ok)
       => Called = Indices(localTasks)

\* C34 amended: the calls and the errors are in that order, and once the push
\* loop is over the local tasks without a remote call are those mapped to a
\* remote id that the pull did not return
C34_SequentialOrderedAtMostOne ==
  /\ CallsAndErrorsOrdered
  /\ (~prev.dirty /\ PushLoopOver)
       => \A i \in Indices(localTasks) :
            i \notin Called
              <=> /\ localTasks[i].id \in DOMAIN pre.syncStore.taskMappings
                  /\ pre.syncStore.taskMappings[localTasks[i].id]
                       \notin MsIds(msTasks)

\* a pass in which the imports of two remote tasks of different titles failed
\* and two local tasks had a remote call each, up to the commit
C34_Witness ==
  /\ Returned /\ CommitReached
  /\ Cardinality(FailedImports) >= 2
  /\ Len(result.errors) >= 2
  /\ result.errors[1].title # result.errors[2].title
  /\ Cardinality({j \in Indices(trace) : trace[j].op \in RemoteOps}) >= 2

\* how far a pass is: the phase and the position in its loop
PhaseNo(at) ==
  CASE at = "lists" -> 1
    [] at = "pull" -> 2
    [] at = "import" -> 3
    [] at = "push" -> 4
    [] at = "commit" -> 5
    [] OTHER -> 6

\* C35: a pass that has begun returns; a returned pass is either a success or
\* a failure with an error to show; every step of a pass takes it further, to
\* a later phase or to the next item of its loop; and a pass makes at most
\* one remote create or update per local task of its snapshot and at most one
\* local create per remote task of its pull
C35_Termination ==
  /\ (pc \notin {"idle", "done"}) ~> (pc = "done")
  /\ [](pc = "done" => (result.success \/ result.errors # <<>>))
  /\ [][pc \notin {"idle", "done"}
          => \/ PhaseNo(pc') > PhaseNo(pc)
             \/ PhaseNo(pc') = PhaseNo(pc) /\ idx' = idx + 1]_vars
  /\ [](/\ Cardinality({j \in Indices(trace) : trace[j].op \in RemoteOps})
             <= Len(localTasks)
        /\ Cardinality({j \in Indices(trace) :
                          trace[j].op = "taskService.create"})
             <= Len(msTasks)
        /\ idx <= Len(msTasks) + Len(localTasks) + 1)

\* a pass that imported a remote task, exported a local one and returned
\* failed from its commit
C35_Witness ==
  /\ Returned /\ CommitFailed /\ ~result.success
  /\ result.errors # <<>>
  /\ Calls("taskService.create", TRUE) # {}
  /\ Calls("CreateTask", TRUE) # {}
====
